---- MODULE Spec2Model ----
(***************************************************************************)
(* Model of osm2gmns/osmnet/complex_intersection.py:                       *)
(*   _identifyComplexIntersections(network, int_buffer)                    *)
(*   consolidateComplexIntersections(network, auto_identify, int_buffer)   *)
(* A network is node_dict / link_dict (insertion-ordered key sequences),   *)
(* the Node and Link objects they refer to, and the two id counters.       *)
(* Node and Link objects outlive their removal from the dictionaries, as   *)
(* Python objects do while something still refers to them.                 *)
(* Each call is one step; the locals it ends with (group_list,             *)
(* group_status, the per-pass counts, node_group_dict, the removal sets)   *)
(* are kept in det and cons, the network it started from in pre.           *)
(* Spec runs consolidation calls on networks with preset main_node_id      *)
(* values; SpecDetect runs the detector on networks with mixed link        *)
(* lengths and control types.                                              *)
(* Not modelled: geometry / geometry_xy averaging and osm_highway (floats  *)
(* and tags no property below reads).                                      *)
(***************************************************************************)
EXTENDS Integers, Sequences, FiniteSets, TLC

\* ---- bounds of the model ------------------------------------------------
NumNodes == 4
NumLinks == 2
DetNodes == 3
DetLinks == 2

\* ---- values -------------------------------------------------------------
None == -1
CtrlTypes == {"signal", "stop"}
Lengths == {5, 6}
IntBuffers == {5}

VARIABLES
    node_dict,          \* network.node_dict: node ids in insertion order
    link_dict,          \* network.link_dict: link ids in insertion order
    node,               \* Node objects by node_id
    link,               \* Link objects by link_id
    max_node_id,        \* network.max_node_id
    max_main_node_id,   \* network.max_main_node_id
    pre,                \* the network when the last call started
    call,               \* the last call, its arguments, and the call before it
    det,                \* locals of the last _identifyComplexIntersections
    cons                \* locals of the last consolidation

vars == <<node_dict, link_dict, node, link, max_node_id, max_main_node_id,
          pre, call, det, cons>>

\* ---- sequence helpers ---------------------------------------------------
Range(s) == {s[i] : i \in 1..Len(s)}

InSeq(x, s) == \E i \in 1..Len(s) : s[i] = x

Count(x, s) == Cardinality({i \in 1..Len(s) : s[i] = x})

Sum(s) == LET RECURSIVE sm(_)
              sm(i) == IF i = 0 THEN 0 ELSE s[i] + sm(i - 1)
          IN sm(Len(s))

\* del d[k] on an insertion-ordered dict: the other keys keep their order
DelKeys(s, ks) == SelectSeq(s, LAMBDA k : k \notin ks)

\* ---- _identifyComplexIntersections --------------------------------------

\* IsCandidate with `>=` for `>` at line 34
IsCandidateStrict(nd, lk, l, int_buffer) ==
    /\ ~(lk[l].length >= int_buffer)
    /\ nd[lk[l].from_node].main_node_id = None
    /\ nd[lk[l].to_node].main_node_id = None
    /\ nd[lk[l].from_node].ctrl_type = "signal"
    /\ nd[lk[l].to_node].ctrl_type = "signal"

\* IsCandidate with `or` for `and` at line 35
IsCandidateEitherNone(nd, lk, l, int_buffer) ==
    /\ ~(lk[l].length > int_buffer)
    /\ \/ nd[lk[l].from_node].main_node_id = None
       \/ nd[lk[l].to_node].main_node_id = None
    /\ nd[lk[l].from_node].ctrl_type = "signal"
    /\ nd[lk[l].to_node].ctrl_type = "signal"

\* IsCandidate without line 35
IsCandidateAnyMainNodeId(nd, lk, l, int_buffer) ==
    /\ ~(lk[l].length > int_buffer)
    /\ nd[lk[l].from_node].ctrl_type = "signal"
    /\ nd[lk[l].to_node].ctrl_type = "signal"

\* lines 34-36: the three `continue` filters of the candidate loop
IsCandidate(nd, lk, l, int_buffer) ==
    /\ ~(lk[l].length > int_buffer)
    /\ nd[lk[l].from_node].main_node_id = None
    /\ nd[lk[l].to_node].main_node_id = None
    /\ nd[lk[l].from_node].ctrl_type = "signal"
    /\ nd[lk[l].to_node].ctrl_type = "signal"

\* lines 31-38: group_list, one set {from_node, to_node} per surviving link
RECURSIVE BuildGroups(_, _, _, _, _)
BuildGroups(ld, nd, lk, int_buffer, i) ==
    IF i > Len(ld) THEN << >>
    ELSE LET rest == BuildGroups(ld, nd, lk, int_buffer, i + 1)
         IN IF IsCandidate(nd, lk, ld[i], int_buffer)
            THEN <<{lk[ld[i]].from_node, lk[ld[i]].to_node}>> \o rest
            ELSE rest

\* line 48: group1.update(group2)
UpdateGroup(list, no1, no2) == [list EXCEPT ![no1] = list[no1] \cup list[no2]]

\* Deactivate without line 49
DeactivateForgotten(status, no2) == status

\* line 49: group_status[group_no2] = 0
Deactivate(status, no2) == [status EXCEPT ![no2] = 0]

\* lines 44-49: the inner loop for a fixed group_no1; g = [list, status]
RECURSIVE InnerLoop(_, _, _)
InnerLoop(g, no1, no2) ==
    IF no2 > Len(g.list) THEN g
    ELSE IF g.status[no2] = 0 \/ no1 = no2 THEN InnerLoop(g, no1, no2 + 1)
    ELSE IF g.list[no1] \cap g.list[no2] # {}
         THEN InnerLoop([list |-> UpdateGroup(g.list, no1, no2),
                         status |-> Deactivate(g.status, no2)],
                        no1, no2 + 1)
         ELSE InnerLoop(g, no1, no2 + 1)

\* lines 42-49: one full pass of the outer loop
RECURSIVE MergePass(_, _)
MergePass(g, no1) ==
    IF no1 > Len(g.list) THEN g
    ELSE IF g.status[no1] = 0 THEN MergePass(g, no1 + 1)
    ELSE MergePass(InnerLoop(g, no1, 1), no1 + 1)

\* NextValidCount without line 55
NextValidCountStale(number_of_valid_groups, new_number_of_valid_groups) ==
    number_of_valid_groups

\* line 55: the count carried into the next pass
NextValidCount(number_of_valid_groups, new_number_of_valid_groups) ==
    new_number_of_valid_groups

\* lines 40-55: the `while True` loop.  trace lists the count of active
\* groups after each pass; fuel cuts a run that never reaches `break`.
RECURSIVE MergeLoop(_, _, _, _)
MergeLoop(g, number_of_valid_groups, trace, fuel) ==
    IF fuel = 0 THEN [g |-> g, trace |-> trace, exited |-> FALSE]
    ELSE LET g2 == MergePass(g, 1)
             new_number_of_valid_groups == Sum(g2.status)
             tr == Append(trace, new_number_of_valid_groups)
         IN IF number_of_valid_groups = new_number_of_valid_groups
            THEN [g |-> g2, trace |-> tr, exited |-> TRUE]
            ELSE MergeLoop(g2,
                     NextValidCount(number_of_valid_groups, new_number_of_valid_groups),
                     tr, fuel - 1)

\* lines 57-61: stamp each active group; s = [node, max_main_node_id]
RECURSIVE StampGroups(_, _, _)
StampGroups(g, s, no) ==
    IF no > Len(g.list) THEN s
    ELSE IF g.status[no] = 0 THEN StampGroups(g, s, no + 1)
    ELSE StampGroups(g,
             [node |-> [n \in DOMAIN s.node |->
                          IF n \in g.list[no]
                          THEN [s.node[n] EXCEPT !.main_node_id = s.max_main_node_id]
                          ELSE s.node[n]],
              max_main_node_id |-> s.max_main_node_id + 1],
             no + 1)

\* the whole function: the stamped nodes, the counter and the locals
Identify(ld, nd, lk, mmid, int_buffer) ==
    LET group_list == BuildGroups(ld, nd, lk, int_buffer, 1)
        g0 == [list |-> group_list, status |-> [i \in 1..Len(group_list) |-> 1]]
        n0 == Sum(g0.status)
        lp == MergeLoop(g0, n0, << >>, Len(ld) + 2)
        st == StampGroups(lp.g, [node |-> nd, max_main_node_id |-> mmid], 1)
    IN [node |-> st.node, max_main_node_id |-> st.max_main_node_id,
        locals |-> [ran |-> TRUE, group_list |-> lp.g.list, group_status |-> lp.g.status,
                    initial |-> n0, trace |-> lp.trace, exited |-> lp.exited]]

NoDet == [ran |-> FALSE, group_list |-> << >>, group_status |-> << >>,
          initial |-> 0, trace |-> << >>, exited |-> TRUE]

\* ---- consolidateComplexIntersections ------------------------------------

\* lines 89-97: node_group_dict as its keys in insertion order and its lists
RECURSIVE GroupNodes(_, _, _, _)
GroupNodes(nds, nd, i, d) ==
    IF i > Len(nds) THEN d
    ELSE LET n == nds[i]
             m == nd[n].main_node_id
         IN IF m = None THEN GroupNodes(nds, nd, i + 1, d)
            ELSE IF InSeq(m, d.keys)
            THEN GroupNodes(nds, nd, i + 1,
                     [d EXCEPT !.group = [@ EXCEPT ![m] = Append(@, n)]])
            ELSE GroupNodes(nds, nd, i + 1,
                     [keys |-> Append(d.keys, m), group |-> (m :> <<n>>) @@ d.group])

\* lines 97-99: node_group_ctrl_type_dict[main_node_id]
GroupIsSignal(nd, node_group) ==
    \E i \in 1..Len(node_group) : nd[node_group[i]].ctrl_type = "signal"

\* line 108: Node(node_id), a node with no attribute set and empty link lists
NewNode(node_id) ==
    [main_node_id |-> None, ctrl_type |-> "", osm_node_id |-> << >>,
     incoming_link_list |-> << >>, outgoing_link_list |-> << >>]

\* OtherEndInGroup comparing with the first member only
OtherEndIsFirstMember(other_end, node_group) == other_end = node_group[1]

\* line 126 / line 133: is the link's other end a member of node_group
OtherEndInGroup(other_end, node_group) == InSeq(other_end, node_group)

\* SetToNode rewiring both ends of the link
SetBothNodes(lk, l, new_node) ==
    [lk EXCEPT ![l].to_node = new_node, ![l].from_node = new_node]

\* line 130: link.to_node = new_node
SetToNode(lk, l, new_node) == [lk EXCEPT ![l].to_node = new_node]

\* SetFromNode without line 137
SetFromNodeForgotten(lk, l, new_node) == lk

\* line 137: link.from_node = new_node
SetFromNode(lk, l, new_node) == [lk EXCEPT ![l].from_node = new_node]

\* AppendLink without the append
AppendLinkForgotten(lst, l) == lst

\* lines 131 and 138: new_node's link list .append(link)
AppendLink(lst, l) == Append(lst, l)

\* lines 125-131: the incoming links of one member; c holds the objects
RECURSIVE RewireIncoming(_, _, _, _, _)
RewireIncoming(c, lst, i, node_group, new_node) ==
    IF i > Len(lst) THEN c
    ELSE LET l == lst[i]
         IN IF OtherEndInGroup(c.link[l].from_node, node_group)
            THEN RewireIncoming(
                     [c EXCEPT !.removal_link_set = @ \cup {l}],
                     lst, i + 1, node_group, new_node)
            ELSE RewireIncoming(
                     [c EXCEPT !.link = SetToNode(@, l, new_node),
                               !.node[new_node].incoming_link_list = AppendLink(@, l)],
                     lst, i + 1, node_group, new_node)

\* lines 132-138: the outgoing links of one member
RECURSIVE RewireOutgoing(_, _, _, _, _)
RewireOutgoing(c, lst, i, node_group, new_node) ==
    IF i > Len(lst) THEN c
    ELSE LET l == lst[i]
         IN IF OtherEndInGroup(c.link[l].to_node, node_group)
            THEN RewireOutgoing(
                     [c EXCEPT !.removal_link_set = @ \cup {l}],
                     lst, i + 1, node_group, new_node)
            ELSE RewireOutgoing(
                     [c EXCEPT !.link = SetFromNode(@, l, new_node),
                               !.node[new_node].outgoing_link_list = AppendLink(@, l)],
                     lst, i + 1, node_group, new_node)

\* lines 116-140: the loop over the members of one group
RECURSIVE ProcessMembers(_, _, _, _)
ProcessMembers(c, node_group, i, new_node) ==
    IF i > Len(node_group) THEN c
    ELSE LET n == node_group[i]
             c1 == [c EXCEPT !.removal_node_set = @ \cup {n},
                             !.node[new_node].osm_node_id = @ \o c.node[n].osm_node_id]
             c2 == RewireIncoming(c1, c1.node[n].incoming_link_list, 1,
                                  node_group, new_node)
             c3 == RewireOutgoing(c2, c2.node[n].outgoing_link_list, 1,
                                  node_group, new_node)
         IN ProcessMembers(c3, node_group, i + 1, new_node)

\* IsSkipped with `< 1` for `< 2`
IsSkippedOnlyEmpty(node_group) == Len(node_group) < 1

\* line 105: a group of fewer than two nodes is skipped
IsSkipped(node_group) == Len(node_group) < 2

\* lines 108-151: one iteration of the loop over node_group_dict
ProcessGroup(c, main_node_id, node_group) ==
    IF IsSkipped(node_group) THEN c
    ELSE LET new_node == c.max_node_id
             fresh == [NewNode(new_node) EXCEPT
                          !.main_node_id = main_node_id,
                          !.ctrl_type = IF GroupIsSignal(c.node, node_group)
                                        THEN "signal" ELSE @]
             c1 == [c EXCEPT !.node = (new_node :> fresh) @@ @,
                             !.new_node_of = (main_node_id :> new_node) @@ @]
             c2 == ProcessMembers(c1, node_group, 1, new_node)
         IN [c2 EXCEPT !.node_dict = IF InSeq(new_node, @) THEN @ ELSE Append(@, new_node),
                       !.max_node_id = @ + 1]

\* lines 104-151: the loop over node_group_dict
RECURSIVE ProcessGroups(_, _, _)
ProcessGroups(c, d, k) ==
    IF k > Len(d.keys) THEN c
    ELSE ProcessGroups(ProcessGroup(c, d.keys[k], d.group[d.keys[k]]), d, k + 1)

\* lines 154-155: the deferred deletions
DeleteNodes(nds, removal_node_set) == DelKeys(nds, removal_node_set)

DeleteLinks(ld, removal_link_set) == DelKeys(ld, removal_link_set)

\* lines 89-155: the function after the optional detection
Consolidate(nds, ld, nd, lk, mnid) ==
    LET d == GroupNodes(nds, nd, 1, [keys |-> << >>, group |-> << >>])
        c0 == [node |-> nd, link |-> lk, node_dict |-> nds, max_node_id |-> mnid,
               removal_node_set |-> {}, removal_link_set |-> {},
               new_node_of |-> << >>]
        c == ProcessGroups(c0, d, 1)
    IN [node |-> c.node, link |-> c.link, max_node_id |-> c.max_node_id,
        node_dict |-> DeleteNodes(c.node_dict, c.removal_node_set),
        link_dict |-> DeleteLinks(ld, c.removal_link_set),
        locals |-> [ran |-> TRUE, keys |-> d.keys, group |-> d.group,
                    new_node_of |-> c.new_node_of,
                    removal_node_set |-> c.removal_node_set,
                    removal_link_set |-> c.removal_link_set]]

NoCons == [ran |-> FALSE, keys |-> << >>, group |-> << >>, new_node_of |-> << >>,
           removal_node_set |-> {}, removal_link_set |-> {}]

\* ---- the networks the calls start from ----------------------------------
\* Every start network is well formed: a link is once in its from_node's
\* outgoing_link_list and once in its to_node's incoming_link_list, both
\* counters are above every id in use.  Links join a node to itself or to a
\* node with a neighbouring id, in either direction.

PresetIds == {0, 1}

IdSeq(n) == [i \in 1..n |-> i]

Ends(nn) == {e \in (1..nn) \X (1..nn) : e[1] - e[2] \in {-1, 0, 1}}

\* a node's link list: the links that end (or start) at it, in link_dict order
LinksAt(ends, n, side) ==
    SelectSeq(IdSeq(Len(ends)), LAMBDA l : ends[l][side] = n)

Snapshot(nds, ld, nd, lk, mnid, mmid) ==
    [node_dict |-> nds, link_dict |-> ld, node |-> nd, link |-> lk,
     max_node_id |-> mnid, max_main_node_id |-> mmid]

Network(nn, ends, len, ctrl, mid) ==
    /\ node_dict = IdSeq(nn)
    /\ link_dict = IdSeq(Len(ends))
    /\ node = [n \in 1..nn |->
                 [main_node_id |-> mid[n], ctrl_type |-> ctrl[n],
                  osm_node_id |-> <<n>>,
                  incoming_link_list |-> LinksAt(ends, n, 2),
                  outgoing_link_list |-> LinksAt(ends, n, 1)]]
    /\ link = [l \in 1..Len(ends) |->
                 [from_node |-> ends[l][1], to_node |-> ends[l][2],
                  length |-> len[l]]]
    /\ max_node_id = nn + 1
    /\ max_main_node_id = Cardinality(PresetIds)
    /\ pre = Snapshot(node_dict, link_dict, node, link, max_node_id, max_main_node_id)
    /\ call = [op |-> "none", auto_identify |-> FALSE, int_buffer |-> 0,
               prev_op |-> "none", prev_int_buffer |-> 0]
    /\ det = NoDet
    /\ cons = NoCons

\* main_node_id values supplied from outside: the nodes of one id are
\* consecutive in node_dict and id 0 is met before id 1
IsPresetPattern(mid, nn) ==
    /\ \A a, b, c \in 1..nn : (a < b /\ b < c /\ mid[a] = mid[c]) => mid[b] = mid[a]
    /\ \A b \in 1..nn : mid[b] = 1 => \E a \in 1..b : mid[a] = 0

\* networks for consolidation: any preset pattern, every node a signal,
\* every link short
Init ==
    \E mid \in {m \in [1..NumNodes -> {None} \cup PresetIds] :
                   IsPresetPattern(m, NumNodes)},
       ends \in [1..NumLinks -> Ends(NumNodes)] :
        Network(NumNodes, ends, [l \in 1..NumLinks |-> 5],
                [n \in 1..NumNodes |-> "signal"], mid)

\* networks for detection: any link lengths, at most one node that is not a
\* signal and at most one node that already carries a main_node_id
InitDetect ==
    \E ends \in [1..DetLinks -> Ends(DetNodes)],
       len \in [1..DetLinks -> Lengths],
       stop \in 0..DetNodes, preset \in 0..DetNodes :
        Network(DetNodes, ends, len,
                [n \in 1..DetNodes |-> IF n = stop THEN "stop" ELSE "signal"],
                [n \in 1..DetNodes |-> IF n = preset THEN 0 ELSE None])

\* ---- the calls ----------------------------------------------------------

\* _identifyComplexIntersections(network, int_buffer)
IdentifyCall ==
    \E int_buffer \in IntBuffers :
    \E r \in {Identify(link_dict, node, link, max_main_node_id, int_buffer)} :
        /\ node' = r.node
        /\ max_main_node_id' = r.max_main_node_id
        /\ det' = r.locals
        /\ cons' = NoCons
        /\ pre' = Snapshot(node_dict, link_dict, node, link, max_node_id, max_main_node_id)
        /\ call' = [op |-> "identify", auto_identify |-> FALSE, int_buffer |-> int_buffer,
                    prev_op |-> call.op, prev_int_buffer |-> call.int_buffer]
        /\ UNCHANGED <<node_dict, link_dict, link, max_node_id>>

\* lines 83-84: the optional detection at the head of the consolidation
AutoIdentify(auto_identify, ld, nd, lk, mmid, int_buffer) ==
    IF auto_identify
    THEN Identify(ld, nd, lk, mmid, int_buffer)
    ELSE [node |-> nd, max_main_node_id |-> mmid, locals |-> NoDet]

\* consolidateComplexIntersections(network, auto_identify, int_buffer)
ConsolidateCall ==
    \E auto_identify \in BOOLEAN, int_buffer \in IntBuffers :
    \E r1 \in {AutoIdentify(auto_identify, link_dict, node, link,
                            max_main_node_id, int_buffer)} :
    \E r2 \in {Consolidate(node_dict, link_dict, r1.node, link, max_node_id)} :
        /\ node' = r2.node
        /\ link' = r2.link
        /\ node_dict' = r2.node_dict
        /\ link_dict' = r2.link_dict
        /\ max_node_id' = r2.max_node_id
        /\ max_main_node_id' = r1.max_main_node_id
        /\ det' = r1.locals
        /\ cons' = r2.locals
        /\ pre' = Snapshot(node_dict, link_dict, node, link, max_node_id, max_main_node_id)
        /\ call' = [op |-> "consolidate", auto_identify |-> auto_identify,
                    int_buffer |-> int_buffer,
                    prev_op |-> call.op, prev_int_buffer |-> call.int_buffer]

\* consolidateComplexIntersections is the module's public entry point;
\* _identifyComplexIntersections runs inside it when auto_identify is set
Next == ConsolidateCall

Spec == Init /\ [][Next]_vars

\* the detector called on its own, any number of times
NextDetect == IdentifyCall

SpecDetect == InitDetect /\ [][NextDetect]_vars

\* ---- properties of _identifyComplexIntersections (SpecDetect) -----------
Identified == call.op = "identify"

\* link l joins nodes a and b, in either direction
Joins(l, a, b) ==
    \/ pre.link[l].from_node = a /\ pre.link[l].to_node = b
    \/ pre.link[l].from_node = b /\ pre.link[l].to_node = a

\* link l is no longer than int_buffer and both its ends are signals
ShortSignalLink(l) ==
    /\ pre.link[l].length <= call.int_buffer
    /\ pre.node[pre.link[l].from_node].ctrl_type = "signal"
    /\ pre.node[pre.link[l].to_node].ctrl_type = "signal"

\* a, b, c are chained by two such links
Chained(a, b, c) ==
    /\ \E l1 \in Range(pre.link_dict) : Joins(l1, a, b) /\ ShortSignalLink(l1)
    /\ \E l2 \in Range(pre.link_dict) : Joins(l2, b, c) /\ ShortSignalLink(l2)

LinkEnds(l) == {pre.link[l].from_node, pre.link[l].to_node}

\* every chain <<a, b, c>>: a-b and b-c are links no longer than int_buffer
\* between signal nodes (a, b, c need not differ)
Chains ==
    LET S == {l \in Range(pre.link_dict) : ShortSignalLink(l)}
    IN UNION {{<<a, b, c>> : a \in {x \in LinkEnds(l1) : Joins(l1, x, b)},
                             c \in {x \in LinkEnds(l2) : Joins(l2, b, x)}}
              : <<l1, l2, b>> \in {t \in S \X S \X Range(pre.node_dict) :
                                     t[3] \in LinkEnds(t[1]) \cap LinkEnds(t[2])}}

SameMainNodeId(a, b, c) ==
    /\ node[a].main_node_id = node[b].main_node_id
    /\ node[b].main_node_id = node[c].main_node_id

\* C2 as stated: whenever A-B and B-C are links no longer than int_buffer
\* between signal nodes, A, B and C carry the same main_node_id after the
\* detector returns.
C2_Transitivity_Original ==
    Identified => \A t \in Chains : SameMainNodeId(t[1], t[2], t[3])

\* C2 amended: the same, for nodes A, B, C that carried no main_node_id when
\* the detector was called; they then carry one common, assigned main_node_id.
C2_Transitivity ==
    Identified =>
        \A t \in Chains :
            (\A n \in {t[1], t[2], t[3]} : pre.node[n].main_node_id = None)
            => (SameMainNodeId(t[1], t[2], t[3]) /\ node[t[1]].main_node_id # None)

\* three distinct ungrouped nodes chained A-B-C with no link A-C were stamped
C2_Witness ==
    /\ Identified
    /\ \E a, b, c \in Range(pre.node_dict) :
        /\ a # b /\ b # c /\ a # c
        /\ Chained(a, b, c)
        /\ ~\E l \in Range(pre.link_dict) : Joins(l, a, c)
        /\ \A n \in {a, b, c} : pre.node[n].main_node_id = None
        /\ SameMainNodeId(a, b, c)
        /\ node[a].main_node_id # None

ActiveGroups == {i \in 1..Len(det.group_list) : det.group_status[i] = 1}

\* C3: when the merge loop has exited, two distinct active groups share no
\* node, so a node is in at most one active group, and two distinct active
\* groups are stamped with distinct main_node_id values.
C3_PartitionValidity ==
    (det.ran /\ det.exited) =>
        /\ \A i, j \in ActiveGroups :
              i # j => det.group_list[i] \cap det.group_list[j] = {}
        /\ \A n \in Range(node_dict) :
              Cardinality({i \in ActiveGroups : n \in det.group_list[i]}) <= 1
        /\ \A i, j \in ActiveGroups :
              i # j => \A a \in det.group_list[i], b \in det.group_list[j] :
                          node[a].main_node_id # node[b].main_node_id

\* a run that merged nothing away and left two active groups
C3_Witness ==
    /\ det.ran /\ det.exited
    /\ Cardinality(ActiveGroups) >= 2

\* C6: the detector leaves node_dict, link_dict, every link and every node's
\* link lists and other attributes as they were, and a node that carried a
\* main_node_id when it was called keeps that value.
C6_DetectionFrame ==
    Identified =>
        /\ node_dict = pre.node_dict
        /\ link_dict = pre.link_dict
        /\ link = pre.link
        /\ DOMAIN node = DOMAIN pre.node
        /\ \A n \in DOMAIN node :
            /\ [node[n] EXCEPT !.main_node_id = None]
                 = [pre.node[n] EXCEPT !.main_node_id = None]
            /\ pre.node[n].main_node_id # None
                 => node[n].main_node_id = pre.node[n].main_node_id

\* a run that stamped a group while a signal node joined to that group by a
\* short link already carried a main_node_id
C6_Witness ==
    /\ Identified
    /\ \E l \in Range(link_dict), a, b \in Range(node_dict) :
        /\ Joins(l, a, b) /\ ShortSignalLink(l)
        /\ pre.node[a].main_node_id # None
        /\ pre.node[b].main_node_id = None
        /\ node[b].main_node_id # None

\* C7: a second run of the detector directly after a first one with the same
\* int_buffer builds no candidate group, changes no node and leaves
\* max_main_node_id at the value the first run stored.
C7_DetectionIdempotent ==
    (/\ Identified
     /\ call.prev_op = "identify"
     /\ call.prev_int_buffer = call.int_buffer)
    => (/\ det.initial = 0
        /\ node = pre.node
        /\ max_main_node_id = pre.max_main_node_id)

\* the second run came after a first run that had stamped a group
C7_Witness ==
    /\ Identified
    /\ call.prev_op = "identify"
    /\ call.prev_int_buffer = call.int_buffer
    /\ \E n \in Range(pre.node_dict) :
          pre.node[n].main_node_id >= Cardinality(PresetIds)

\* the count of active groups before pass i
CountBefore(i) == IF i = 1 THEN det.initial ELSE det.trace[i - 1]

\* C9: the merge loop exits; every pass but the last strictly decreases the
\* number of active groups, the last leaves it unchanged, and there are at
\* most (initial number of candidate groups + 1) passes.
C9_MergeLoopTerminates ==
    det.ran =>
        /\ det.exited
        /\ Len(det.trace) >= 1
        /\ Len(det.trace) <= det.initial + 1
        /\ \A i \in 1..(Len(det.trace) - 1) : det.trace[i] < CountBefore(i)
        /\ det.trace[Len(det.trace)] = CountBefore(Len(det.trace))

\* a run whose first pass merged groups, so that a second pass was needed
C9_Witness ==
    /\ det.ran /\ det.exited
    /\ Len(det.trace) >= 2
    /\ det.trace[1] < det.initial

\* ---- properties of consolidateComplexIntersections (Spec) ---------------
Consolidated == call.op = "consolidate"

\* the nodes of node_dict when the call started
OldNodes == Range(pre.node_dict)

\* the nodes that carried main_node_id m when the consolidation loop started
\* (consolidation never changes the main_node_id of an existing node)
GroupOf(m) == {n \in OldNodes : node[n].main_node_id = m}

GroupIds == {node[n].main_node_id : n \in OldNodes} \ {None}

MultiIds == {m \in GroupIds : Cardinality(GroupOf(m)) >= 2}

SingleIds == {m \in GroupIds : Cardinality(GroupOf(m)) = 1}

\* both ends of link l, as they were when the call started, are members of
\* one group of two or more nodes
IntraGroup(l) ==
    \E m \in MultiIds : /\ pre.link[l].from_node \in GroupOf(m)
                        /\ pre.link[l].to_node \in GroupOf(m)

\* link l has an end in a group of two or more nodes
Touches(l) ==
    \E m \in MultiIds : \/ pre.link[l].from_node \in GroupOf(m)
                        \/ pre.link[l].to_node \in GroupOf(m)

\* C1: after the call link_dict holds exactly the original links, each once,
\* minus those whose two ends were members of the same group of size >= 2.
C1_LinkConservation ==
    Consolidated =>
        link_dict = SelectSeq(pre.link_dict, LAMBDA l : ~IntraGroup(l))

\* a call that deleted an intra-group link and kept an external link of a
\* consolidated group
C1_Witness ==
    /\ Consolidated
    /\ \E l \in Range(pre.link_dict) : IntraGroup(l) /\ ~InSeq(l, link_dict)
    /\ \E l \in Range(pre.link_dict) : Touches(l) /\ ~IntraGroup(l) /\ InSeq(l, link_dict)

\* C4: every link of link_dict has its from_node and its to_node in
\* node_dict, before and after every completed call.
C4_LinkEndpointsValid ==
    \A l \in Range(link_dict) :
        /\ InSeq(link[l].from_node, node_dict)
        /\ InSeq(link[l].to_node, node_dict)

\* a call merged nodes away and a link that ended at one of them survives
C4_Witness ==
    /\ Consolidated
    /\ \E l \in Range(link_dict) :
        \/ ~InSeq(pre.link[l].from_node, node_dict)
        \/ ~InSeq(pre.link[l].to_node, node_dict)

\* position of key m in node_group_dict, i.e. the order of processing
KeyIndex(m) == CHOOSE k \in 1..Len(cons.keys) : cons.keys[k] = m

\* link l ran from a member of group m1 to a member of another group m2
CrossGroup(l, m1, m2) ==
    /\ m1 # m2
    /\ pre.link[l].from_node \in GroupOf(m1)
    /\ pre.link[l].to_node \in GroupOf(m2)

\* the node created for group m: new, in node_dict, carrying m
IsNewNodeOf(n, m) ==
    /\ n \notin DOMAIN pre.node
    /\ InSeq(n, node_dict)
    /\ node[n].main_node_id = m

\* C5: a link from a member of a multi-node group to a member of another
\* multi-node group stays in link_dict, running from the new node of the
\* first group to the new node of the second, whichever is processed first.
C5_CrossGroupRewiring ==
    Consolidated =>
        \A l \in Range(pre.link_dict) : \A m1, m2 \in MultiIds :
            CrossGroup(l, m1, m2) =>
                /\ InSeq(l, link_dict)
                /\ IsNewNodeOf(link[l].from_node, m1)
                /\ IsNewNodeOf(link[l].to_node, m2)
                /\ link[l].from_node = cons.new_node_of[m1]
                /\ link[l].to_node = cons.new_node_of[m2]

\* a cross-group link whose to_node's group was processed before its
\* from_node's group
C5_Witness ==
    /\ Consolidated
    /\ \E l \in Range(pre.link_dict) : \E m1, m2 \in MultiIds :
        /\ CrossGroup(l, m1, m2)
        /\ KeyIndex(m2) < KeyIndex(m1)
        /\ InSeq(l, link_dict)

\* C8: for a main_node_id carried by exactly one node, the call creates no
\* node, does not advance max_node_id, keeps the node in node_dict and leaves
\* its attributes and link lists as they were.
C8_SingletonNoOp ==
    Consolidated =>
        /\ max_node_id = pre.max_node_id + Cardinality(MultiIds)
        /\ \A m \in SingleIds : \A n \in GroupOf(m) :
            /\ ~\E x \in DOMAIN node : x \notin DOMAIN pre.node /\ node[x].main_node_id = m
            /\ m \notin DOMAIN cons.new_node_of
            /\ InSeq(n, node_dict)
            /\ [node[n] EXCEPT !.main_node_id = None]
                 = [pre.node[n] EXCEPT !.main_node_id = None]

\* a singleton group whose node is joined by a link to a member of a group
\* that was consolidated in the same call
C8_Witness ==
    /\ Consolidated
    /\ \E m \in SingleIds : \E n \in GroupOf(m) : \E l \in Range(pre.link_dict) :
        /\ n \in {pre.link[l].from_node, pre.link[l].to_node}
        /\ Touches(l)
        /\ InSeq(n, node_dict)

\* C10: for every node n of node_dict and link l of link_dict, l is in
\* n.incoming_link_list (once) exactly when l.to_node is n, and in
\* n.outgoing_link_list (once) exactly when l.from_node is n; the lists of a
\* node created by the call hold no removed link.
C10_CrossReferences ==
    LET links == Range(link_dict)
    IN \A n \in Range(node_dict) :
        LET inc == node[n].incoming_link_list
            out == node[n].outgoing_link_list
        IN /\ Range(inc) \cap links = {l \in links : link[l].to_node = n}
           /\ Range(out) \cap links = {l \in links : link[l].from_node = n}
           /\ \A l \in links : Count(l, inc) <= 1 /\ Count(l, out) <= 1
           /\ n \notin DOMAIN pre.node =>
                (Range(inc) \subseteq links /\ Range(out) \subseteq links)

\* a new node that took over an external link while an intra-group link of
\* its group was removed
C10_Witness ==
    /\ Consolidated
    /\ \E n \in Range(node_dict) :
        /\ n \notin DOMAIN pre.node
        /\ node[n].incoming_link_list \o node[n].outgoing_link_list # << >>
    /\ cons.removal_link_set # {}

====
